---------------------------- MODULE Spec2Model ----------------------------
(***************************************************************************)
(* Text-safety utilities of crates/goose/src/utils.rs: detection and       *)
(* removal of Unicode Tags Block characters, character-safe truncation,    *)
(* and the display projection of a message.                                *)
(*                                                                         *)
(* A Rust String / &str is modelled as what it is: a sequence of UTF-8     *)
(* bytes.  chars() decodes it to Unicode scalar values, collect() encodes  *)
(* scalar values back to bytes, len() is the byte length.                  *)
(***************************************************************************)
EXTENDS Integers, Sequences, FiniteSets, TLC

VARIABLES pc, call, text, max_chars, message, ret, built

vars == <<pc, call, text, max_chars, message, ret, built>>

(***************************************************************************)
(* Bounds of the model.                                                    *)
(***************************************************************************)
\* longest text (in code points) given to the tag functions
MaxTagLen == 3
\* longest text (in code points) given to safe_truncate, and largest max_chars
MaxTruncLen == 5
\* tool outputs have up to MAX_TOOL_OUTPUT_DISPLAY_CHARS + MaxOver code points
MaxOver == 61
\* most content items in a message
MaxItems == 2

(***************************************************************************)
(* Program constants.                                                      *)
(***************************************************************************)
MAX_TOOL_OUTPUT_DISPLAY_CHARS == 10000
TAG_RANGE_FIRST == 917504
TAG_RANGE_LAST == 917631

(***************************************************************************)
(* Option<T>: None is the empty tuple, Some(x) the one-element tuple.      *)
(***************************************************************************)
None == <<>>
Some(x) == <<x>>

(***************************************************************************)
(* UTF-8: str::chars(), String::from_iter (collect), str::len().           *)
(***************************************************************************)
IsContinuationByte(b) == b >= 128 /\ b < 192

Utf8Width(b) == IF b < 128 THEN 1 ELSE IF b < 224 THEN 2 ELSE IF b < 240 THEN 3 ELSE 4

DecodeAt(s, i) ==
  LET b == s[i] IN
  IF b < 128 THEN b
  ELSE IF b < 224 THEN ((b - 192) * 64) + (s[i + 1] - 128)
  ELSE IF b < 240 THEN ((b - 224) * 4096) + ((s[i + 1] - 128) * 64) + (s[i + 2] - 128)
  ELSE ((b - 240) * 262144) + ((s[i + 1] - 128) * 4096)
         + ((s[i + 2] - 128) * 64) + (s[i + 3] - 128)

\* str::chars(): the scalar values that start at the bytes of s that are not
\* continuation bytes, in the order of the text
chars(s) ==
  LET IsStart(i) == ~IsContinuationByte(s[i])
      starts == SelectSeq([i \in 1..Len(s) |-> i], IsStart)
  IN [k \in 1..Len(starts) |-> DecodeAt(s, starts[k])] \o <<>>

EncodeUtf8(c) ==
  IF c < 128 THEN <<c>>
  ELSE IF c < 2048 THEN <<192 + (c \div 64), 128 + (c % 64)>>
  ELSE IF c < 65536
    THEN <<224 + (c \div 4096), 128 + ((c \div 64) % 64), 128 + (c % 64)>>
  ELSE <<240 + (c \div 262144), 128 + ((c \div 4096) % 64),
         128 + ((c \div 64) % 64), 128 + (c % 64)>>

RECURSIVE EncodeRange(_, _, _)
EncodeRange(cs, lo, hi) ==
  IF lo > hi THEN <<>>
  ELSE IF lo = hi THEN EncodeUtf8(cs[lo])
  ELSE LET m == (lo + hi) \div 2 IN
       EncodeRange(cs, lo, m) \o EncodeRange(cs, m + 1, hi)

collect(cs) == EncodeRange(cs, 1, Len(cs))

\* Iterator::take(n)
take(cs, n) == SubSeq(cs, 1, IF n < Len(cs) THEN n ELSE Len(cs))

\* usize::saturating_sub
saturating_sub(a, b) == IF a >= b THEN a - b ELSE 0

\* Display of a usize inside format!: its decimal digits, in ASCII
RECURSIVE FormatUsize(_)
FormatUsize(n) ==
  IF n < 10 THEN <<48 + n>> ELSE FormatUsize(n \div 10) \o <<48 + (n % 10)>>

(***************************************************************************)
(* Unicode data for the code points the model uses, and NFC as the         *)
(* unicode_normalization crate computes it: canonical decomposition,       *)
(* canonical ordering, canonical composition.                              *)
(*   U+0065 e      U+0301 combining acute (ccc 230)                        *)
(*   U+00E9 e-acute = <0065, 0301>     U+0323 combining dot below (ccc 220)*)
(*   U+1EB9 e-dot-below = <0065, 0323>                                     *)
(*   U+200B zero width space   U+4E16 CJK   U+1F30D emoji                  *)
(*   U+E0000, U+E007F first and last tag; U+E0080 the code point after     *)
(***************************************************************************)
CanonicalCombiningClass(c) ==
  CASE c = 769 -> 230
    [] c = 803 -> 220
    [] OTHER -> 0

CanonicalDecomposition(c) ==
  CASE c = 233 -> <<101, 769>>
    [] c = 7865 -> <<101, 803>>
    [] OTHER -> <<c>>

\* the primary composite of a starter and a following character, 0 if none
PrimaryComposite(a, b) ==
  CASE a = 101 /\ b = 769 -> 233
    [] a = 101 /\ b = 803 -> 7865
    [] OTHER -> 0

RECURSIVE Decompose(_)
Decompose(cs) ==
  IF cs = <<>> THEN <<>> ELSE CanonicalDecomposition(Head(cs)) \o Decompose(Tail(cs))

\* canonical ordering: adjacent non-starters out of combining-class order are
\* exchanged until none is left (a stable sort of each run of non-starters)
RECURSIVE CanonicalOrder(_)
CanonicalOrder(cs) ==
  LET bad == {i \in 1..(Len(cs) - 1) :
                /\ CanonicalCombiningClass(cs[i + 1]) > 0
                /\ CanonicalCombiningClass(cs[i]) > CanonicalCombiningClass(cs[i + 1])}
  IN IF bad = {} THEN cs
     ELSE LET i == CHOOSE j \in bad : \A k \in bad : j <= k IN
          CanonicalOrder([cs EXCEPT ![i] = cs[i + 1], ![i + 1] = cs[i]])

\* canonical composition.  out: the characters emitted so far; starter: the
\* index in out of the last starter (0: none); last: the combining class of
\* the last character kept after that starter (-1: none, the next character
\* is adjacent to the starter)
RECURSIVE ComposeFrom(_, _, _, _, _)
ComposeFrom(cs, i, out, starter, last) ==
  IF i > Len(cs) THEN out
  ELSE LET c == cs[i]
           ccc == CanonicalCombiningClass(c)
           blocked == last # -1 /\ last >= ccc
           comp == IF starter = 0 \/ blocked THEN 0
                   ELSE PrimaryComposite(out[starter], c)
       IN IF comp # 0
            THEN ComposeFrom(cs, i + 1, [out EXCEPT ![starter] = comp], starter, last)
          ELSE IF ccc = 0
            THEN ComposeFrom(cs, i + 1, Append(out, c), Len(out) + 1, -1)
          ELSE ComposeFrom(cs, i + 1, Append(out, c), starter, ccc)

Compose(cs) == ComposeFrom(cs, 1, <<>>, 0, -1)

\* UnicodeNormalization::nfc on a stream of chars
nfc(cs) == Compose(CanonicalOrder(Decompose(cs)))

(***************************************************************************)
(* The tag functions.                                                      *)
(***************************************************************************)
\* mutant: the last code point of the block, U+E007F, left out of the range
is_in_unicode_tag_range_open(c) == c >= TAG_RANGE_FIRST /\ c < TAG_RANGE_LAST

\* mutant: the code point after the block, U+E0080, taken into the range
is_in_unicode_tag_range_wide(c) == c >= TAG_RANGE_FIRST /\ c <= TAG_RANGE_LAST + 1

is_in_unicode_tag_range(c) == c >= TAG_RANGE_FIRST /\ c <= TAG_RANGE_LAST

contains_unicode_tags(s) ==
  \E i \in 1..Len(chars(s)) : is_in_unicode_tag_range(chars(s)[i])

sanitize_unicode_tags(s) ==
  LET normalized == collect(nfc(chars(s)))
      not_tag(c) == ~is_in_unicode_tag_range(c)
  IN collect(SelectSeq(chars(normalized), not_tag))

(***************************************************************************)
(* Truncation.                                                             *)
(***************************************************************************)
\* the literal "..."
Ellipsis == <<46, 46, 46>>

\* mutant: truncation by storage units, s.len() and &s[..n]
safe_truncate_bytes(s, n) ==
  IF Len(s) <= n THEN s ELSE SubSeq(s, 1, saturating_sub(n, 3)) \o Ellipsis

\* mutant: the whole budget spent on the prefix, the marker on top of it
safe_truncate_no_reserve(s, n) ==
  IF Len(chars(s)) <= n THEN s ELSE collect(take(chars(s), n)) \o Ellipsis

safe_truncate(s, n) ==
  IF Len(chars(s)) <= n
    THEN s
    ELSE LET truncated == collect(take(chars(s), saturating_sub(n, 3)))
         IN truncated \o Ellipsis

\* the literals of the format string of truncate_tool_text_for_display:
\* "\n\n... [output truncated: showing ", " of ", " characters]"
FmtShowing ==
  <<10, 10, 46, 46, 46, 32, 91, 111, 117, 116, 112, 117, 116, 32, 116, 114, 117,
    110, 99, 97, 116, 101, 100, 58, 32, 115, 104, 111, 119, 105, 110, 103, 32>>

FmtOf == <<32, 111, 102, 32>>

FmtCharacters == <<32, 99, 104, 97, 114, 97, 99, 116, 101, 114, 115, 93>>

\* mutant: the limit compared with < instead of <=
truncate_tool_text_strict(s) ==
  LET text_chars == chars(s)
      char_count == Len(text_chars)
  IN IF char_count < MAX_TOOL_OUTPUT_DISPLAY_CHARS
       THEN None
       ELSE Some(collect(take(text_chars, MAX_TOOL_OUTPUT_DISPLAY_CHARS))
                 \o FmtShowing \o FormatUsize(MAX_TOOL_OUTPUT_DISPLAY_CHARS)
                 \o FmtOf \o FormatUsize(char_count) \o FmtCharacters)

\* mutant: the prefix and the marker of safe_truncate instead of the annotation
truncate_tool_text_ellipsis(s) ==
  IF Len(chars(s)) <= MAX_TOOL_OUTPUT_DISPLAY_CHARS
    THEN None
    ELSE Some(safe_truncate(s, MAX_TOOL_OUTPUT_DISPLAY_CHARS))

truncate_tool_text_for_display(s) ==
  LET text_chars == chars(s)
      char_count == Len(text_chars)
  IN IF char_count <= MAX_TOOL_OUTPUT_DISPLAY_CHARS
       THEN None
       ELSE LET truncated == collect(take(text_chars, MAX_TOOL_OUTPUT_DISPLAY_CHARS))
            IN Some(truncated \o FmtShowing \o FormatUsize(MAX_TOOL_OUTPUT_DISPLAY_CHARS)
                    \o FmtOf \o FormatUsize(char_count) \o FmtCharacters)

(***************************************************************************)
(* Inputs.                                                                 *)
(***************************************************************************)
SeqsUpTo(S, n) == UNION {[1..k -> S] : k \in 0..n}

\* e, combining acute, combining dot below, e-acute, e-dot-below, zero width
\* space, a CJK character, an emoji, the first and the last tag, the code
\* point after the block
TagAlphabet == {101, 769, 803, 233, 7865, 8203, 19990, 127757, 917504, 917631, 917632}

TagTexts == {collect(cs) : cs \in SeqsUpTo(TagAlphabet, MaxTagLen)}

\* e (1 byte), combining acute (2 bytes), an emoji (4 bytes)
TruncAlphabet == {101, 769, 127757}

TruncTexts == {collect(cs) : cs \in SeqsUpTo(TruncAlphabet, MaxTruncLen)}

\* str::repeat
Repeat(unit, n) == [i \in 1..(n * Len(unit)) |-> unit[((i - 1) % Len(unit)) + 1]] \o <<>>

\* "x" repeated, from one character under the limit to MaxOver over it; the
\* inputs of the tests ("x" * 20000, "line\n" * 5000, "Hello world"); the
\* empty text; an emoji and a CJK character repeated around the limit
ToolTexts ==
  {Repeat(<<120>>, n) : n \in (MAX_TOOL_OUTPUT_DISPLAY_CHARS - 1)
                              ..(MAX_TOOL_OUTPUT_DISPLAY_CHARS + MaxOver)}
  \cup {Repeat(<<120>>, 2 * MAX_TOOL_OUTPUT_DISPLAY_CHARS),
        Repeat(<<108, 105, 110, 101, 10>>, 5000),
        <<72, 101, 108, 108, 111, 32, 119, 111, 114, 108, 100>>,
        <<>>}
  \cup {Repeat(u, n) : u \in {<<240, 159, 140, 141>>, <<228, 184, 150>>},
                       n \in {MAX_TOOL_OUTPUT_DISPLAY_CHARS,
                              MAX_TOOL_OUTPUT_DISPLAY_CHARS + 1,
                              MAX_TOOL_OUTPUT_DISPLAY_CHARS + MaxOver}}

NoMessage == [content |-> <<>>]

(***************************************************************************)
(* The caller: a call is pending with its arguments (pc = "call"), the     *)
(* function runs, the caller holds its result (pc = "returned").           *)
(***************************************************************************)
InitText ==
  /\ pc = "call"
  /\ \/ /\ call \in {"contains_unicode_tags", "sanitize_unicode_tags"}
        /\ text \in TagTexts
        /\ max_chars = 0
     \/ /\ call = "safe_truncate"
        /\ text \in TruncTexts
        /\ max_chars \in 0..(MaxTruncLen + 1)
     \/ /\ call = "truncate_tool_text_for_display"
        /\ text \in ToolTexts
        /\ max_chars = 0
  /\ message = NoMessage
  /\ ret = None
  /\ built = 0

ContainsUnicodeTags ==
  /\ pc = "call" /\ call = "contains_unicode_tags"
  /\ ret' = contains_unicode_tags(text)
  /\ pc' = "returned"
  /\ UNCHANGED <<call, text, max_chars, message, built>>

SanitizeUnicodeTags ==
  /\ pc = "call" /\ call = "sanitize_unicode_tags"
  /\ ret' = sanitize_unicode_tags(text)
  /\ pc' = "returned"
  /\ UNCHANGED <<call, text, max_chars, message, built>>

\* the caller passes a sanitised text through the sanitiser once more
SanitizeAgain ==
  /\ pc = "returned" /\ call = "sanitize_unicode_tags"
  /\ text' = ret
  /\ ret' = sanitize_unicode_tags(ret)
  /\ call' = "sanitize_unicode_tags again"
  /\ UNCHANGED <<pc, max_chars, message, built>>

\* the caller probes a sanitised text with the detector
DetectAfterSanitize ==
  /\ pc = "returned" /\ call = "sanitize_unicode_tags"
  /\ text' = ret
  /\ ret' = contains_unicode_tags(ret)
  /\ call' = "contains_unicode_tags after sanitize"
  /\ UNCHANGED <<pc, max_chars, message, built>>

SafeTruncate ==
  /\ pc = "call" /\ call = "safe_truncate"
  /\ ret' = safe_truncate(text, max_chars)
  /\ pc' = "returned"
  /\ UNCHANGED <<call, text, max_chars, message, built>>

TruncateToolTextForDisplay ==
  /\ pc = "call" /\ call = "truncate_tool_text_for_display"
  /\ ret' = truncate_tool_text_for_display(text)
  /\ pc' = "returned"
  /\ UNCHANGED <<call, text, max_chars, message, built>>

NextText ==
  \/ ContainsUnicodeTags
  \/ SanitizeUnicodeTags
  \/ SanitizeAgain
  \/ DetectAfterSanitize
  \/ SafeTruncate
  \/ TruncateToolTextForDisplay

Spec == InitText /\ [][NextText]_vars


(***************************************************************************)
(* Messages.  A Message has a role, a creation time, a list of content     *)
(* items and metadata.  A content item is a Text or a ToolResponse (id,    *)
(* tool_result, metadata); a tool_result is Ok(CallToolResult) or Err.  A  *)
(* CallToolResult has a list of content blocks, structured_content,        *)
(* is_error and meta.  A content block is a raw content (text or image)    *)
(* with optional annotations.                                              *)
(***************************************************************************)
\* Content::as_text: the text content of a block, if it is one
as_text(content) == IF content.raw.type = "text" THEN Some(content.raw) ELSE None

\* Content::text: a new text block, without annotations
Content_text(t) == [raw |-> [type |-> "text", text |-> t], annotations |-> None]

\* The closures of truncate_message_for_display return a value and set a flag
\* as they run; each is modelled as the pair of both.

\* mutant: every text block is built anew and flagged, truncated or not
map_content_rebuild(content) ==
  LET t == as_text(content)
      truncated == IF t # None THEN truncate_tool_text_for_display(t[1].text) ELSE None
  IN IF truncated # None
       THEN [value |-> Content_text(truncated[1]), changed |-> TRUE]
       ELSE IF t # None
         THEN [value |-> Content_text(t[1].text), changed |-> TRUE]
         ELSE [value |-> content, changed |-> FALSE]

\* mutant: a block that is not text is not carried over
map_content_text_only(content) ==
  LET t == as_text(content)
      truncated == IF t # None THEN truncate_tool_text_for_display(t[1].text) ELSE None
  IN IF truncated # None
       THEN [value |-> Content_text(truncated[1]), changed |-> TRUE]
       ELSE [value |-> IF t # None THEN content ELSE Content_text(<<>>),
             changed |-> FALSE]

\* the closure applied to each block of an Ok result: the block it returns,
\* and whether it set content_changed
map_content(content) ==
  LET t == as_text(content)
      truncated == IF t # None THEN truncate_tool_text_for_display(t[1].text) ELSE None
  IN IF truncated # None
       THEN [value |-> Content_text(truncated[1]), changed |-> TRUE]
       ELSE [value |-> content, changed |-> FALSE]

\* the closure applied to each content item: the item it returns, and whether
\* it set any_changed
map_item(c) ==
  IF c.type = "ToolResponse"
    THEN IF c.tool_result.tag = "Ok"
           THEN LET result == c.tool_result.value
                    mapped == [j \in 1..Len(result.content) |->
                                 map_content(result.content[j])] \o <<>>
                    new_content == [j \in 1..Len(mapped) |-> mapped[j].value] \o <<>>
                    content_changed == \E j \in 1..Len(mapped) : mapped[j].changed
                IN IF ~content_changed
                     THEN [value |-> c, changed |-> FALSE]
                     ELSE [value |->
                             [type |-> "ToolResponse",
                              id |-> c.id,
                              tool_result |->
                                [tag |-> "Ok",
                                 value |-> [result EXCEPT !.content = new_content]],
                              metadata |-> c.metadata],
                           changed |-> TRUE]
           ELSE [value |-> c, changed |-> FALSE]
    ELSE [value |-> c, changed |-> FALSE]

truncate_message_for_display(m) ==
  LET mapped == [i \in 1..Len(m.content) |-> map_item(m.content[i])] \o <<>>
      truncated_content == [i \in 1..Len(mapped) |-> mapped[i].value] \o <<>>
      any_changed == \E i \in 1..Len(mapped) : mapped[i].changed
  IN IF ~any_changed
       THEN m
       ELSE [m EXCEPT !.content = truncated_content]

\* the lists and messages a call constructs: the list of content items, one
\* list of blocks for each Ok tool response, and the message it returns
\* (message.clone(), or the Message built around the new content)
structures_built(m) ==
  1 + Cardinality({i \in 1..Len(m.content) :
                     /\ m.content[i].type = "ToolResponse"
                     /\ m.content[i].tool_result.tag = "Ok"})
    + 1

(***************************************************************************)
(* Input messages.                                                         *)
(***************************************************************************)
TextBlock(t, annotations) == [raw |-> [type |-> "text", text |-> t], annotations |-> annotations]

ImageBlock ==
  [raw |-> [type |-> "image", data |-> <<105, 109, 103>>, mime_type |-> "image/png"],
   annotations |-> None]

ForAssistant == Some([audience |-> <<"assistant">>, priority |-> None])

\* "short output"
ShortOutput == <<115, 104, 111, 114, 116, 32, 111, 117, 116, 112, 117, 116>>

OkResponse(id, blocks, structured, metadata) ==
  [type |-> "ToolResponse",
   id |-> id,
   tool_result |-> [tag |-> "Ok",
                    value |-> [content |-> blocks,
                               structured_content |-> structured,
                               is_error |-> Some(FALSE),
                               meta |-> None]],
   metadata |-> metadata]

\* a text item "Hello"; a tool response that failed; tool responses with a
\* short text (as in the tests), with a text of exactly the limit and a short
\* annotated text, with "line\n" * 5000 (as in the tests), with an image, a
\* text one code point over the limit and a short text, and with a text of
\* 10,059 code points and an annotated text of 10,060
Items ==
  {[type |-> "Text", text |-> <<72, 101, 108, 108, 111>>],
   [type |-> "ToolResponse", id |-> "failed",
    tool_result |-> [tag |-> "Err", value |-> [code |-> -32603, message |-> "failed"]],
    metadata |-> None],
   OkResponse("short", <<TextBlock(ShortOutput, None)>>, None, None),
   OkResponse("limit",
              <<TextBlock(Repeat(<<120>>, MAX_TOOL_OUTPUT_DISPLAY_CHARS), None),
                TextBlock(ShortOutput, ForAssistant)>>, None, None),
   OkResponse("lines", <<TextBlock(Repeat(<<108, 105, 110, 101, 10>>, 5000), None)>>,
              None, None),
   OkResponse("mixed",
              <<ImageBlock,
                TextBlock(Repeat(<<240, 159, 140, 141>>, MAX_TOOL_OUTPUT_DISPLAY_CHARS + 1), None),
                TextBlock(ShortOutput, None)>>,
              Some([status |-> "done"]), Some([origin |-> "extension"])),
   OkResponse("edge",
              <<TextBlock(Repeat(<<120>>, 10059), None),
                TextBlock(Repeat(<<120>>, 10060), ForAssistant)>>, None, None)}

Messages ==
  {[role |-> "assistant", created |-> 0, content |-> items \o <<>>,
    metadata |-> [user_visible |-> TRUE, agent_visible |-> TRUE]] :
     items \in SeqsUpTo(Items, MaxItems)}

InitMessage ==
  /\ pc = "call"
  /\ call = "truncate_message_for_display"
  /\ message \in Messages
  /\ text = <<>>
  /\ max_chars = 0
  /\ ret = None
  /\ built = 0

TruncateMessageForDisplay ==
  /\ pc = "call" /\ call = "truncate_message_for_display"
  /\ ret' = truncate_message_for_display(message)
  /\ built' = structures_built(message)
  /\ pc' = "returned"
  /\ UNCHANGED <<call, text, max_chars, message>>

NextMessage == TruncateMessageForDisplay

SpecMessage == InitMessage /\ [][NextMessage]_vars

(***************************************************************************)
(* Notions the properties are stated with.                                 *)
(***************************************************************************)
Returned(f) == pc = "returned" /\ call = f

\* the number of code points of a text: its bytes that start a character
CharCount(s) == Cardinality({i \in 1..Len(s) : ~IsContinuationByte(s[i])})

TagBlock == 917504..917631

HasTag(s) == \E i \in 1..Len(chars(s)) : chars(s)[i] \in TagBlock

EndsWith(s, suffix) ==
  Len(s) >= Len(suffix) /\ SubSeq(s, Len(s) - Len(suffix) + 1, Len(s)) = suffix

Contains(s, pattern) ==
  \E i \in 0..(Len(s) - Len(pattern)) :
    s[i + 1] = pattern[1] /\ SubSeq(s, i + 1, i + Len(pattern)) = pattern

\* every byte that starts a character is followed by exactly the continuation
\* bytes of that character, and the text starts with such a byte
WellFormedUtf8(s) ==
  /\ Len(s) > 0 => ~IsContinuationByte(s[1])
  /\ \A i \in 1..Len(s) :
       ~IsContinuationByte(s[i]) =>
         LET w == Utf8Width(s[i]) IN
         /\ i + w - 1 <= Len(s)
         /\ \A j \in (i + 1)..(i + w - 1) : IsContinuationByte(s[j])
         /\ i + w <= Len(s) => ~IsContinuationByte(s[i + w])

\* the first p bytes of s end a character (str::is_char_boundary)
IsCharBoundary(s, p) == p = 0 \/ p = Len(s) \/ (p < Len(s) /\ ~IsContinuationByte(s[p + 1]))

\* after k code points of cs no multi-code-point character is open: the next
\* code point is not a combining mark
IsGraphemeBoundary(cs, k) ==
  k = 0 \/ k >= Len(cs) \/ CanonicalCombiningClass(cs[k + 1]) = 0

Occurrences(c, cs) == Cardinality({i \in 1..Len(cs) : cs[i] = c})

(***************************************************************************)
(* C1 as stated: safe_truncate returns the text when it has at most        *)
(* max_chars code points, and otherwise a result of at most max_chars code *)
(* points that ends with "...", for every max_chars, 0, 1 and 2 included.  *)
(***************************************************************************)
C1_AsStated ==
  Returned("safe_truncate") =>
    IF CharCount(text) <= max_chars
      THEN ret = text
      ELSE CharCount(ret) <= max_chars /\ EndsWith(ret, Ellipsis)

(***************************************************************************)
(* C1 amended: safe_truncate returns the text when it has at most          *)
(* max_chars code points; otherwise the result is a prefix of the text     *)
(* followed by "...", of exactly max_chars code points when max_chars >= 3 *)
(* and exactly "..." (3 code points, more than max_chars) when             *)
(* max_chars < 3.                                                          *)
(***************************************************************************)
C1_SafeTruncate ==
  Returned("safe_truncate") =>
    IF CharCount(text) <= max_chars
      THEN ret = text
      ELSE /\ EndsWith(ret, Ellipsis)
           /\ SubSeq(ret, 1, Len(ret) - 3) = SubSeq(text, 1, Len(ret) - 3)
           /\ max_chars >= 3 => CharCount(ret) = max_chars
           /\ max_chars < 3 => ret = Ellipsis

\* a text of multi-byte characters is cut to a non-empty prefix and the marker
C1_Witness ==
  /\ Returned("safe_truncate")
  /\ CharCount(text) > max_chars /\ max_chars > 3
  /\ Len(text) > CharCount(text)

(***************************************************************************)
(* C2 as stated: sanitising a sanitised text changes nothing.              *)
(***************************************************************************)
C2_Idempotent == Returned("sanitize_unicode_tags again") => ret = text

(***************************************************************************)
(* C3: a sanitised text holds no code point of U+E0000..U+E007F, the       *)
(* detector answers false on it, and it is empty when the input is empty   *)
(* or holds only tag code points.                                          *)
(***************************************************************************)
C3_SanitizedHasNoTags ==
  /\ Returned("sanitize_unicode_tags") =>
       /\ \A i \in 1..Len(chars(ret)) : chars(ret)[i] \notin TagBlock
       /\ (\A i \in 1..Len(chars(text)) : chars(text)[i] \in TagBlock) => ret = <<>>
  /\ Returned("contains_unicode_tags after sanitize") => ret = FALSE

\* a text that held tag code points and others has been sanitised
C3_Witness ==
  /\ Returned("sanitize_unicode_tags")
  /\ HasTag(text)
  /\ ret # <<>>
  /\ ~HasTag(ret)

(***************************************************************************)
(* C4: truncate_tool_text_for_display returns None exactly when the text   *)
(* has at most 10,000 code points; otherwise the first 10,000 code points  *)
(* of the text, then "\n\n... [output truncated: showing 10000 of {total}  *)
(* characters]" with the code-point count of the text as total, and no     *)
(* "..." directly after the prefix.                                        *)
(***************************************************************************)
C4_DisplayTruncation ==
  Returned("truncate_tool_text_for_display") =>
    LET total == CharCount(text)
        annotation == FmtShowing \o <<49, 48, 48, 48, 48>> \o FmtOf
                        \o FormatUsize(total) \o FmtCharacters
    IN /\ ret = None <=> total <= 10000
       /\ ret # None =>
            LET out == ret[1]
                p == Len(out) - Len(annotation)
            IN /\ p >= 0
               /\ SubSeq(out, p + 1, Len(out)) = annotation
               /\ SubSeq(out, 1, p) = SubSeq(text, 1, p)
               /\ CharCount(SubSeq(out, 1, p)) = 10000
               /\ IsCharBoundary(text, p)
               /\ SubSeq(out, p + 1, p + 3) # Ellipsis
               /\ total = 20000 =>
                    Contains(SubSeq(out, p + 1, Len(out)),
                             <<49, 48, 48, 48, 48, 32, 111, 102, 32, 50, 48, 48, 48, 48,
                               32, 99, 104, 97, 114, 97, 99, 116, 101, 114, 115>>)

\* a text of 10,001 multi-byte characters has been truncated
C4_Witness ==
  /\ Returned("truncate_tool_text_for_display")
  /\ CharCount(text) = 10001 /\ Len(text) > 10001
  /\ ret # None

(***************************************************************************)
(* C9: sanitising removes only tag code points.  The result is the NFC     *)
(* form of the text without its tag code points, in order; a text without  *)
(* tag code points comes back as its NFC form (no e is left before a       *)
(* combining acute or dot below), which is the text itself exactly when    *)
(* the text is in NFC; zero width spaces, CJK characters, emoji and the    *)
(* code point after the block are all kept.                                *)
(***************************************************************************)
C9_RemovesOnlyTags ==
  Returned("sanitize_unicode_tags") =>
    LET input == chars(text)
        output == chars(ret)
        outside(c) == c \notin TagBlock
    IN /\ output = SelectSeq(nfc(input), outside)
       /\ nfc(input) = input => output = SelectSeq(input, outside)
       /\ ~HasTag(text) =>
            /\ output = nfc(input)
            /\ ret = text <=> nfc(input) = input
            /\ \A i \in 1..(Len(output) - 1) :
                 ~(output[i] = 101 /\ output[i + 1] \in {769, 803})
       /\ \A c \in {8203, 19990, 127757, 917632} :
            Occurrences(c, output) = Occurrences(c, input)

\* a text in NFC with a zero width space or the code point after the block
\* next to a tag has been sanitised
C9_Witness ==
  /\ Returned("sanitize_unicode_tags")
  /\ HasTag(text)
  /\ nfc(chars(text)) = chars(text)
  /\ \E c \in {8203, 917632} : Occurrences(c, chars(ret)) > 0

(***************************************************************************)
(* C10 as stated: the prefix a truncation keeps never ends inside a        *)
(* character made of several code points (a base and its combining marks). *)
(***************************************************************************)
C10_AsStated ==
  /\ (Returned("safe_truncate") /\ CharCount(text) > max_chars) =>
       IsGraphemeBoundary(chars(text), saturating_sub(max_chars, 3))
  /\ (Returned("truncate_tool_text_for_display") /\ ret # None) =>
       IsGraphemeBoundary(chars(text), 10000)

(***************************************************************************)
(* C10 amended: the results of sanitize_unicode_tags, safe_truncate and    *)
(* truncate_tool_text_for_display are well-formed UTF-8, and the prefix a  *)
(* truncation keeps ends on a code-point boundary of the text, never       *)
(* inside the bytes of one code point; it may separate a base character    *)
(* from its combining marks.                                               *)
(***************************************************************************)
C10_CodePointBoundaries ==
  /\ Returned("sanitize_unicode_tags") => WellFormedUtf8(ret)
  /\ Returned("safe_truncate") =>
       /\ WellFormedUtf8(ret)
       /\ CharCount(text) > max_chars =>
            /\ SubSeq(ret, 1, Len(ret) - 3) = SubSeq(text, 1, Len(ret) - 3)
            /\ IsCharBoundary(text, Len(ret) - 3)
  /\ (Returned("truncate_tool_text_for_display") /\ ret # None) =>
       LET p == Len(ret[1]) - (Len(FmtShowing) + 5 + Len(FmtOf)
                                 + Len(FormatUsize(CharCount(text))) + Len(FmtCharacters))
       IN /\ WellFormedUtf8(ret[1])
          /\ SubSeq(ret[1], 1, p) = SubSeq(text, 1, p)
          /\ IsCharBoundary(text, p)

\* safe_truncate has cut a text right after a four-byte character
C10_Witness ==
  /\ Returned("safe_truncate")
  /\ CharCount(text) > max_chars /\ max_chars > 3
  /\ chars(text)[max_chars - 3] = 127757

(***************************************************************************)
(* Notions the properties of truncate_message_for_display are stated with. *)
(***************************************************************************)
IsOkResponse(c) == c.type = "ToolResponse" /\ c.tool_result.tag = "Ok"

Blocks(c) == c.tool_result.value.content

OverLimit(block) == block.raw.type = "text" /\ CharCount(block.raw.text) > 10000

NeedsTruncation(c) ==
  IsOkResponse(c) /\ \E j \in 1..Len(Blocks(c)) : OverLimit(Blocks(c)[j])

\* "output truncated"
OutputTruncated ==
  <<111, 117, 116, 112, 117, 116, 32, 116, 114, 117, 110, 99, 97, 116, 101, 100>>

DecimalDigits(n) ==
  IF n < 10 THEN 1 ELSE IF n < 100 THEN 2 ELSE IF n < 1000 THEN 3
  ELSE IF n < 10000 THEN 4 ELSE IF n < 100000 THEN 5 ELSE 6

\* r has the content items of m, one for one and in order; what is not an Ok
\* tool response is equal; an Ok tool response has its blocks one for one and
\* in order, and those that are not text are equal
StructurePreserved(m, r) ==
  /\ Len(r.content) = Len(m.content)
  /\ \A i \in 1..Len(m.content) :
       LET c == m.content[i]
           d == r.content[i]
       IN IF ~IsOkResponse(c)
            THEN d = c
            ELSE /\ IsOkResponse(d)
                 /\ Len(Blocks(d)) = Len(Blocks(c))
                 /\ \A j \in 1..Len(Blocks(c)) :
                      /\ Blocks(d)[j].raw.type = Blocks(c)[j].raw.type
                      /\ Blocks(c)[j].raw.type # "text" => Blocks(d)[j] = Blocks(c)[j]

(***************************************************************************)
(* C5: truncate_message_for_display preserves structure.  The result has   *)
(* the content items of the input, one for one and in order; every item    *)
(* that is not a ToolResponse and every ToolResponse with an Err result is *)
(* equal to the input item; in an Ok ToolResponse the blocks are the same  *)
(* in number and order and every block that is not text is equal; the      *)
(* input message is not modified.                                          *)
(***************************************************************************)
C5_StructurePreserved ==
  [][(pc = "call" /\ call = "truncate_message_for_display" /\ pc' = "returned")
       => (message' = message /\ StructurePreserved(message, ret'))]_vars

\* a message with an item that is not an Ok tool response and a tool response
\* with an image block has had a text truncated
C5_Witness ==
  /\ Returned("truncate_message_for_display")
  /\ ret # message
  /\ \E i \in 1..Len(message.content) : ~IsOkResponse(message.content[i])
  /\ \E i \in 1..Len(message.content) :
       /\ NeedsTruncation(message.content[i])
       /\ \E j \in 1..Len(Blocks(message.content[i])) :
            Blocks(message.content[i])[j].raw.type = "image"

(***************************************************************************)
(* C6 as stated: when no text block of an Ok ToolResponse has more than    *)
(* 10,000 code points the original message is returned as it is: the       *)
(* result equals the input in every field and no new structure is built.   *)
(***************************************************************************)
C6_AsStated ==
  (/\ Returned("truncate_message_for_display")
   /\ \A i \in 1..Len(message.content) : ~NeedsTruncation(message.content[i]))
    => (ret = message /\ built = 0)

(***************************************************************************)
(* C6 amended: when no text block of an Ok ToolResponse has more than      *)
(* 10,000 code points the result equals the input in every field (content, *)
(* role, creation time, metadata); it is a clone, built by the call after  *)
(* a list of the content items and a list of blocks for each Ok            *)
(* ToolResponse have been built and dropped.                               *)
(***************************************************************************)
C6_UnchangedIsEqual ==
  (/\ Returned("truncate_message_for_display")
   /\ \A i \in 1..Len(message.content) : ~NeedsTruncation(message.content[i]))
    => /\ ret = message
       /\ ret.role = message.role /\ ret.created = message.created
       /\ ret.metadata = message.metadata /\ ret.content = message.content
       /\ built = 2 + Cardinality({i \in 1..Len(message.content) :
                                     IsOkResponse(message.content[i])})

\* a message whose tool response has a text of exactly 10,000 code points has
\* come back
C6_Witness ==
  /\ Returned("truncate_message_for_display")
  /\ \A i \in 1..Len(message.content) : ~NeedsTruncation(message.content[i])
  /\ \E i \in 1..Len(message.content) :
       /\ IsOkResponse(message.content[i])
       /\ \E j \in 1..Len(Blocks(message.content[i])) :
            /\ Blocks(message.content[i])[j].raw.type = "text"
            /\ CharCount(Blocks(message.content[i])[j].raw.text) = 10000

(***************************************************************************)
(* C7 as stated: the text that replaces a text of more than 10,000 code    *)
(* points contains "output truncated" and is strictly shorter than the     *)
(* original, for every length over the limit.                              *)
(***************************************************************************)
C7_AsStated ==
  Returned("truncate_message_for_display") =>
    \A i \in 1..Len(message.content) :
      IsOkResponse(message.content[i]) =>
        \A j \in 1..Len(Blocks(message.content[i])) :
          OverLimit(Blocks(message.content[i])[j]) =>
            LET original == Blocks(message.content[i])[j].raw.text
                replacement == Blocks(ret.content[i])[j].raw.text
            IN /\ Contains(replacement, OutputTruncated)
               /\ CharCount(replacement) < CharCount(original)
               /\ Len(replacement) < Len(original)

(***************************************************************************)
(* C7 amended: the text that replaces a text of total > 10,000 code points *)
(* contains "output truncated" and has 10,000 + 54 + (the number of        *)
(* decimal digits of total) code points; it is strictly shorter than the   *)
(* original exactly when total is greater than that, which is from 10,060  *)
(* code points on for totals of five digits, and it is longer than or as   *)
(* long as the original for 10,001 to 10,059 code points.                  *)
(***************************************************************************)
C7_ReplacementLength ==
  Returned("truncate_message_for_display") =>
    \A i \in 1..Len(message.content) :
      IsOkResponse(message.content[i]) =>
        \A j \in 1..Len(Blocks(message.content[i])) :
          OverLimit(Blocks(message.content[i])[j]) =>
            LET original == Blocks(message.content[i])[j].raw.text
                replacement == Blocks(ret.content[i])[j].raw.text
                total == CharCount(original)
            IN /\ Contains(replacement, OutputTruncated)
               /\ CharCount(replacement) = 10000 + 54 + DecimalDigits(total)
               /\ CharCount(replacement) < total <=> total > 10054 + DecimalDigits(total)
               /\ total < 100000 => (CharCount(replacement) < total <=> total >= 10060)

\* the 25,000 characters of the test have been replaced by a shorter text
C7_Witness ==
  /\ Returned("truncate_message_for_display")
  /\ \E i \in 1..Len(message.content) :
       /\ IsOkResponse(message.content[i])
       /\ \E j \in 1..Len(Blocks(message.content[i])) :
            /\ Blocks(message.content[i])[j].raw.type = "text"
            /\ Len(Blocks(message.content[i])[j].raw.text) = 25000
            /\ Len(Blocks(ret.content[i])[j].raw.text) < 25000

(***************************************************************************)
(* C8 as stated: in the result, a text block of an Ok ToolResponse with    *)
(* more than 10,000 code points has only its text replaced, by the output  *)
(* of truncate_tool_text_for_display, every other attribute of the block   *)
(* (its annotations) being as in the original; any other block equals the  *)
(* original; a rebuilt ToolResponse keeps its id, its metadata, the Ok     *)
(* wrapper and the other fields of the result; a ToolResponse without a    *)
(* text over the limit is passed through unchanged.                        *)
(***************************************************************************)
C8_AsStated ==
  Returned("truncate_message_for_display") =>
    \A i \in 1..Len(message.content) :
      LET c == message.content[i]
          d == ret.content[i]
      IN IF ~NeedsTruncation(c)
           THEN d = c
           ELSE /\ d.type = "ToolResponse" /\ d.id = c.id /\ d.metadata = c.metadata
                /\ d.tool_result.tag = "Ok"
                /\ d.tool_result.value
                     = [c.tool_result.value EXCEPT !.content = Blocks(d)]
                /\ Len(Blocks(d)) = Len(Blocks(c))
                /\ \A j \in 1..Len(Blocks(c)) :
                     IF OverLimit(Blocks(c)[j])
                       THEN Blocks(d)[j]
                              = [Blocks(c)[j] EXCEPT
                                   !.raw.text =
                                     truncate_tool_text_for_display(Blocks(c)[j].raw.text)[1]]
                       ELSE Blocks(d)[j] = Blocks(c)[j]

=============================================================================
